---- MODULE Spec2Model ----
(***************************************************************************)
(* c2png: the rendering pipeline of src/main.c as a state machine.         *)
(*                                                                         *)
(* One run of main(): open the input and the output, ctx_init (palette,    *)
(* get_file_dimensions, canvas allocation), clear the canvas, file2png     *)
(* (one step per line read), draw_border, png2file, ctx_finish.            *)
(*                                                                         *)
(* Bytes are integers 0..255.  A pixel is the 4 bytes <<r, g, b, a>> that  *)
(* the code stores at rows[y][4*x .. 4*x+3]; the canvas maps a row index   *)
(* to a map from pixel column to pixel.                                    *)
(***************************************************************************)
EXTENDS Integers, Sequences, FiniteSets, TLC

(***************************************************************************)
(* Program constants (src/main.c)                                          *)
(***************************************************************************)
MIN_W == 70
MIN_H == 0
MARGIN == 10
LINE_SPACING == 1
BORDER_SZ == 2
TAB_SZ == 4
COL_SZ == 4

COL_DEFAULT == 0
COL_PREPROC == 1
COL_TYPES == 2
COL_KWRDS == 3
COL_NUMBER == 4
COL_STRING == 5
COL_COMMENT == 6
COL_FUNC_CALL == 7
COL_SYMBOL == 8
COL_BACK == 9
COL_BORDER == 10
PALETTE_SZ == 11

\* Character codes used by the code: '\n', '\t', ' ', 0x1B, '\0', EOF.
NL == 10
TAB == 9
SPACE == 32
ESC == 27
NUL == 0
EOF == -1

(***************************************************************************)
(* Model parameters.  fonts/main_font.h (FONT_W, FONT_H, main_font[]) is   *)
(* an asset outside the sources; the glyph size is a parameter here.       *)
(***************************************************************************)
FONT_W == 2
FONT_H == 2
\* Number of lines of an input file.
MaxLines == 2
\* Number of tokens the classifier highlights in one run.
MaxSpans == 1

(***************************************************************************)
(* Helpers                                                                 *)
(***************************************************************************)
Max(a, b) == IF a >= b THEN a ELSE b

Rep(b, n) == [i \in 1..n |-> b]

\* Concatenation of the sequences ss[lo..hi] (by halves, to stay shallow)
RECURSIVE FlattenRange(_, _, _)
FlattenRange(ss, lo, hi) ==
    IF lo > hi THEN << >>
    ELSE IF lo = hi THEN ss[lo]
    ELSE LET mid == (lo + hi) \div 2
         IN FlattenRange(ss, lo, mid) \o FlattenRange(ss, mid + 1, hi)

Flatten(ss) == FlattenRange(ss, 1, Len(ss))

\* COL(RGB, A)
COL(RGB, A) ==
    << (RGB \div 65536) % 256, (RGB \div 256) % 256, RGB % 256, A % 256 >>

\* ctx->palette as filled by ctx_init
palette ==
    [i \in 0..(PALETTE_SZ - 1) |->
        CASE i = COL_DEFAULT   -> COL(16777215, 255)   \* 0xFFFFFF
          [] i = COL_PREPROC   -> COL(16738112, 255)   \* 0xFF6740
          [] i = COL_TYPES     -> COL(7973119, 255)    \* 0x79A8FF
          [] i = COL_KWRDS     -> COL(16740255, 255)   \* 0xFF6F9F
          [] i = COL_NUMBER    -> COL(8964767, 255)    \* 0x88CA9F
          [] i = COL_STRING    -> COL(54224, 255)      \* 0x00D3D0
          [] i = COL_COMMENT   -> COL(10000536, 255)   \* 0x989898
          [] i = COL_FUNC_CALL -> COL(16777215, 255)   \* = palette[COL_DEFAULT]
          [] i = COL_SYMBOL    -> COL(16777215, 255)   \* = palette[COL_DEFAULT]
          [] i = COL_BACK      -> COL(328965, 255)     \* 0x050505
          [] i = COL_BORDER    -> COL(2236962, 255)]   \* 0x222222

\* CHAR_Y_TO_PX / CHAR_X_TO_PX
CHAR_Y_TO_PX(Y) == MARGIN + Y * (FONT_H + LINE_SPACING)
CHAR_X_TO_PX(X) == MARGIN + X * FONT_W

(***************************************************************************)
(* Font asset.  main_font[] is a table of FONT_H bytes per character code, *)
(* the most significant bit being the leftmost pixel.  The table itself is *)
(* outside the sources; this one has a blank space glyph and a fixed bit   *)
(* pattern for every other code.                                           *)
(***************************************************************************)
main_font(i) == IF i \div FONT_H = SPACE THEN 0 ELSE (i * 73 + 41) % 256

\* get_font_bit: main_font[c * FONT_H + y] & (0x80 >> x)
get_font_bit(c, x, y) ==
    (main_font(c * FONT_H + y) \div (2 ^ (7 - x))) % 2 = 1

(***************************************************************************)
(* State                                                                   *)
(***************************************************************************)
VARIABLES
    pc,          \* position in main(): see the actions
    input,       \* content of the input file, a sequence of bytes
    char_signed, \* build: plain char is a signed type
    syntax_hl,   \* build: DISABLE_SYNTAX_HIGHLIGHT is not defined
    in_off,      \* offset of input_fp
    out_file,    \* output file on disk: "untouched", "empty" or "complete"
    ctx,         \* Ctx fields x, y, w, h, w_px, h_px
    rows,        \* ctx->rows: the canvas, <<>> while not allocated
    heap,        \* canvas storage: allocations and frees of each row
    line_buf,    \* file2png: bytes stored in line_buf so far
    hl,          \* calls made to the highlight library, in order
    spans,       \* number of tokens the classifier has highlighted
    last,        \* what the last print2png was given and did
    ub           \* kinds of undefined behaviour executed so far

vars == << pc, input, char_signed, syntax_hl, in_off, out_file, ctx, rows,
           heap, line_buf, hl, spans, last, ub >>

(***************************************************************************)
(* Reading the input stream                                                *)
(***************************************************************************)
\* fgetc(fp) at offset off: the byte as an int, or EOF
fgetc(file, off) == IF off < Len(file) THEN file[off + 1] ELSE EOF

\* Conversion of an int in -1..255 to plain char, as in "char c = fgetc(fp)"
ToChar(v) ==
    IF char_signed
    THEN (IF v >= 128 THEN v - 256 ELSE v)
    ELSE (IF v < 0 THEN v + 256 ELSE v)

\* Value of a stored byte read through a plain char lvalue (*s)
CharVal(b) == ToChar(b)

\* Offset at which "while ((c = fgetc(fp)) != EOF)" stops when reading from
\* offset off on; the loop stops iff some read compares equal to EOF.
LoopStops(file, off) ==
    \E k \in off..Len(file) : ToChar(fgetc(file, k)) = EOF
StopOffset(file, off) ==
    CHOOSE k \in off..Len(file) :
        /\ ToChar(fgetc(file, k)) = EOF
        /\ \A j \in off..(k - 1) : ToChar(fgetc(file, j)) # EOF

\* A scan that takes every character for a newline
get_file_dimensions_step_all_newlines(d, c) ==
    [x |-> 0, y |-> d.y + 1, w |-> d.w,
     h |-> IF d.h < d.y + 1 THEN d.y + 1 ELSE d.h]

\* get_file_dimensions, loop body: d holds the locals x, y and the fields
\* w, h; c is the char read
get_file_dimensions_step(d, c) ==
    LET x == IF c = NL THEN 0 ELSE d.x + 1
        y == IF c = NL THEN d.y + 1 ELSE d.y
    IN [x |-> x, y |-> y,
        w |-> IF d.w < x THEN x ELSE d.w,
        h |-> IF d.h < y THEN y ELSE d.h]

\* get_file_dimensions, the loop body run on the bytes at offsets lo..hi-1
\* in order.  The range is halved to keep the evaluation shallow; the test
\* on first.x makes the first half be computed before the second.
RECURSIVE get_file_dimensions_loop(_, _, _, _)
get_file_dimensions_loop(file, d, lo, hi) ==
    IF lo >= hi THEN d
    ELSE IF hi = lo + 1
    THEN get_file_dimensions_step(d, ToChar(fgetc(file, lo)))
    ELSE LET mid   == (lo + hi) \div 2
             first == get_file_dimensions_loop(file, d, lo, mid)
         IN IF first.x >= 0
            THEN get_file_dimensions_loop(file, first, mid, hi)
            ELSE first

\* get_file_dimensions(ctx, fp) with ctx->w = w0, ctx->h = h0 on entry:
\* rewind, then the loop up to the read that compares equal to EOF
get_file_dimensions(file, w0, h0) ==
    get_file_dimensions_loop(file, [x |-> 0, y |-> 0, w |-> w0, h |-> h0],
                             0, StopOffset(file, 0))

(***************************************************************************)
(* Canvas.  A render state rs carries the cursor (x, y), the canvas        *)
(* (rows, w_px, h_px) and oob, the set of pixel positions written outside  *)
(* the allocated rows.                                                     *)
(***************************************************************************)
\* The four byte stores rows[py][4*px .. 4*px+3] = col.{r,g,b,a}
StorePixel(rs, px, py, col) ==
    IF px >= 0 /\ px < rs.w_px /\ py >= 0 /\ py < rs.h_px
    THEN [rs EXCEPT !.rows[py][px] = col]
    ELSE [rs EXCEPT !.oob = @ \cup {<< px, py >>}]

\* putchar2png, default case: the fy/fx loops from (fy, fx) on
RECURSIVE glyph_loop(_, _, _, _, _, _)
glyph_loop(rs, c, fg, bg, fy, fx) ==
    IF fy >= FONT_H THEN rs
    ELSE IF fx >= FONT_W THEN glyph_loop(rs, c, fg, bg, fy + 1, 0)
    ELSE LET final_y == CHAR_Y_TO_PX(rs.y) + fy
             final_x == CHAR_X_TO_PX(rs.x) + fx
             col     == IF get_font_bit(c % 256, fx, fy) THEN fg ELSE bg
         IN glyph_loop(StorePixel(rs, final_x, final_y, col),
                       c, fg, bg, fy, fx + 1)

\* putchar2png for a character that is neither '\n' nor '\t'
put_glyph(rs, c, fg, bg) ==
    [glyph_loop(rs, c, fg, bg, 0, 0) EXCEPT !.x = @ + 1]

\* A tab loop that is one pass short
RECURSIVE tab_loop_short(_, _, _, _)
tab_loop_short(rs, fg, bg, i) ==
    IF i >= TAB_SZ - 1 THEN rs
    ELSE LET next == put_glyph(rs, SPACE, fg, bg)
         IN IF next.x >= 0 THEN tab_loop_short(next, fg, bg, i + 1) ELSE next

\* putchar2png, case '\t': for (i = 0; i < TAB_SZ; i++) putchar2png(' ')
\* (the test on next.x makes the glyph be drawn before the next pass)
RECURSIVE tab_loop(_, _, _, _)
tab_loop(rs, fg, bg, i) ==
    IF i >= TAB_SZ THEN rs
    ELSE LET next == put_glyph(rs, SPACE, fg, bg)
         IN IF next.x >= 0 THEN tab_loop(next, fg, bg, i + 1) ELSE next

\* putchar2png(ctx, c, fg, bg); c is a char value
putchar2png(rs, c, fg, bg) ==
    IF c = NL THEN [rs EXCEPT !.y = @ + 1, !.x = 0]
    ELSE IF c = TAB THEN tab_loop(rs, fg, bg, 0)
    ELSE put_glyph(rs, c, fg, bg)

\* draw_rect: the cur_y / cur_x loops store c at every pixel of the
\* rectangle x <= px < x + w, y <= py < y + h, each exactly once
InRect(px, py, x, y, w, h) ==
    px >= x /\ px < x + w /\ py >= y /\ py < y + h

draw_rect(rs, x, y, w, h, c) ==
    [rs EXCEPT
       !.rows = [py \in 0..(rs.h_px - 1) |->
                   [px \in 0..(rs.w_px - 1) |->
                       IF InRect(px, py, x, y, w, h) THEN c
                       ELSE rs.rows[py][px]]],
       !.oob = @ \cup { p \in (x..(x + w - 1)) \X (y..(y + h - 1)) :
                          ~(/\ p[1] >= 0 /\ p[1] < rs.w_px
                            /\ p[2] >= 0 /\ p[2] < rs.h_px) }]

\* A border without its right edge
draw_border_three_edges(rs) ==
    LET r1 == draw_rect(rs, 0, 0, rs.w_px, BORDER_SZ, palette[COL_BORDER])
        r2 == draw_rect(r1, 0, 0, BORDER_SZ, rs.h_px, palette[COL_BORDER])
    IN draw_rect(r2, 0, rs.h_px - BORDER_SZ, rs.w_px, BORDER_SZ,
                 palette[COL_BORDER])

\* draw_border
draw_border(rs) ==
    LET r1 == draw_rect(rs, 0, 0, rs.w_px, BORDER_SZ, palette[COL_BORDER])
        r2 == draw_rect(r1, 0, 0, BORDER_SZ, rs.h_px, palette[COL_BORDER])
        r3 == draw_rect(r2, 0, rs.h_px - BORDER_SZ, rs.w_px, BORDER_SZ,
                        palette[COL_BORDER])
    IN draw_rect(r3, rs.w_px - BORDER_SZ, 0, BORDER_SZ, rs.h_px,
                 palette[COL_BORDER])

(***************************************************************************)
(* Highlight library (highlight.c), seen through its interface.  Its code  *)
(* is outside the sources: highlight_line copies the bytes of the line and *)
(* inserts escape markers, each the four bytes 0x1B, fg index, bg index,   *)
(* 0.  marks is the sequence of <<position, fg, bg>> it inserts, by        *)
(* ascending position; position p is in front of the byte at offset p.     *)
(***************************************************************************)
Marker(fg, bg) == << ESC, fg, bg, NUL >>

\* The markers inserted at position p, in order
MarkersAt(marks, p) ==
    Flatten([k \in 1..Len(marks) |->
                IF marks[k][1] = p THEN Marker(marks[k][2], marks[k][3])
                ELSE << >>])

\* highlight_line(line_buf, hl_line, line_buf_pos): the highlighted line,
\* without its terminating NUL
highlight_line(raw, marks) ==
    Flatten([p \in 1..(Len(raw) + 1) |->
                MarkersAt(marks, p - 1)
                \o (IF p <= Len(raw) THEN << raw[p] >> ELSE << >>)])

\* The classifier highlights a token by a marker with the color of its
\* category in front of it and a marker back to COL_DEFAULT behind it; the
\* background index is always COL_BACK.  A token that does not end in the
\* line (an open comment) has no marker behind it.  A span <<p, q, fg>> is
\* a token at offsets p..q-1 of category fg; q = -1 if it does not end.
HlColors == { COL_STRING }

\* Token boundaries of a line: offset 0, every offset where the byte
\* differs from the one before it, and the end of the line.
Boundaries(raw) ==
    {0} \cup { p \in 1..(Len(raw) - 1) : raw[p + 1] # raw[p] } \cup { Len(raw) }

Spans(raw) ==
    { << p, q, fg >> : p \in Boundaries(raw),
                       q \in Boundaries(raw) \cup { -1 }, fg \in HlColors }

\* Sequences of at most n spans, in order and not overlapping
RECURSIVE SpanSeqs(_, _)
SpanSeqs(raw, n) ==
    IF n <= 0 THEN { << >> }
    ELSE LET shorter == SpanSeqs(raw, n - 1)
             open(ss) == ss # << >> /\ ss[Len(ss)][2] = -1
             from(ss) == IF ss = << >> THEN 0 ELSE ss[Len(ss)][2]
         IN shorter \cup
            UNION { { Append(ss, sp) :
                        sp \in { u \in Spans(raw) :
                                   /\ u[1] >= from(ss)
                                   /\ u[2] = -1 \/ u[2] > u[1] } } :
                    ss \in { t \in shorter : Len(t) = n - 1 /\ ~open(t) } }

\* The markers <<position, fg, bg>> of a sequence of spans
MarksOf(tokens) ==
    Flatten([k \in 1..Len(tokens) |->
               << << tokens[k][1], tokens[k][3], COL_BACK >> >>
               \o (IF tokens[k][2] = -1 THEN << >>
                   ELSE << << tokens[k][2], COL_DEFAULT, COL_BACK >> >>)])

(***************************************************************************)
(* print2png.  mem is the memory s walks over: the highlighted line, its   *)
(* terminating NUL at offset term, then whatever bytes follow it in the    *)
(* buffer.  A read behind term is a read of bytes highlight_line never     *)
(* wrote; a palette index outside 0..PALETTE_SZ-1 reads behind the palette *)
(* array and yields junk.  st is a render state extended with log (the     *)
(* calls made to putchar2png), lookups (palette indexes used) and ub.      *)
(***************************************************************************)
ReadMem(mem, i) == IF i <= Len(mem) THEN mem[i] ELSE NUL

\* A palette lookup that ignores the index
PaletteAt_first(idx, junk) == palette[COL_DEFAULT]

\* ctx->palette[idx]
PaletteAt(idx, junk) ==
    IF idx >= 0 /\ idx < PALETTE_SZ THEN palette[idx] ELSE junk

ReadUb(i, term) == IF i > term THEN { "read_past_terminator" } ELSE {}

IndexUb(idx) ==
    IF idx >= 0 /\ idx < PALETTE_SZ THEN {} ELSE { "palette_index" }

\* One pass of the while loop of print2png.  ps holds the render state st,
\* the offset i of s in mem (1-based), the active colors fg, bg, and done,
\* set once the loop condition has failed.
print2png_pass(ps, mem, term, junk) ==
    LET c   == CharVal(ReadMem(mem, ps.i))
        st0 == [ps.st EXCEPT !.ub = @ \cup ReadUb(ps.i, term)]
    IN
    IF ps.done THEN ps
    ELSE IF c = NUL \/ c = EOF THEN [ps EXCEPT !.st = st0, !.done = TRUE]
    ELSE IF c = ESC
    THEN LET fg_idx == CharVal(ReadMem(mem, ps.i + 1))
             bg_idx == CharVal(ReadMem(mem, ps.i + 2))
             st1    == [st0 EXCEPT !.ub = @ \cup ReadUb(ps.i + 2, term)]
         IN IF syntax_hl
            THEN [ps EXCEPT
                    !.st = [st1 EXCEPT
                              !.ub = @ \cup IndexUb(fg_idx) \cup IndexUb(bg_idx),
                              !.lookups = @ \cup { fg_idx, bg_idx }],
                    !.i = @ + 4,
                    !.fg = PaletteAt(fg_idx, junk),
                    !.bg = PaletteAt(bg_idx, junk)]
            ELSE [ps EXCEPT !.st = st1, !.i = @ + 4]
    ELSE [ps EXCEPT
            !.st = [putchar2png(st0, c, ps.fg, ps.bg) EXCEPT
                      !.log = Append(@, << c, ps.fg, ps.bg >>)],
            !.i = @ + 1]

\* n passes of the loop (by halves, to stay shallow; the test on first.i
\* makes the first half be computed before the second)
RECURSIVE print2png_passes(_, _, _, _, _)
print2png_passes(ps, mem, term, junk, n) ==
    IF n <= 0 THEN ps
    ELSE IF n = 1 THEN print2png_pass(ps, mem, term, junk)
    ELSE LET first == print2png_passes(ps, mem, term, junk, n \div 2)
         IN IF first.i >= 0
            THEN print2png_passes(first, mem, term, junk, n - (n \div 2))
            ELSE first

\* A print2png that starts with the string color
print2png_string_first(st, mem, term, junk) ==
    print2png_passes([st |-> st, i |-> 1, fg |-> palette[COL_STRING],
                      bg |-> palette[COL_BACK], done |-> FALSE],
                     mem, term, junk, Len(mem) + 1).st

\* print2png(ctx, s): every pass moves s forward and bytes behind mem read
\* as NUL, so the loop is over after at most Len(mem) + 1 passes
print2png(st, mem, term, junk) ==
    print2png_passes([st |-> st, i |-> 1, fg |-> palette[COL_DEFAULT],
                      bg |-> palette[COL_BACK], done |-> FALSE],
                     mem, term, junk, Len(mem) + 1).st

\* Bytes that may follow the terminator in the highlight buffer, and the
\* colors a read behind the palette array may yield
Garbage == { << >>, << COL_BACK, 97, 97 >> }
JunkColors == { << 0, 0, 0, 0 >>, << 1, 2, 3, 4 >> }

\* The bytes behind the terminator matter only to a run that reads them (u
\* is the undefined behaviour of the run with NULs behind the terminator)
BytesBehind(u) ==
    IF "read_past_terminator" \in u THEN Garbage ELSE { << >> }

\* print2png(ctx, hl_line) followed by putchar2png(ctx, '\n', ...) as in
\* the read loop of file2png: the set of possible outcomes, each the render
\* state after print2png (st1) and after the newline (st2).  There is one
\* outcome unless the run has undefined behaviour.
PrintLine(rs, hl_line) ==
    LET term   == Len(hl_line) + 1
        probes == { print2png(rs, hl_line \o << NUL >>, term, << 0, 0, 0, 0 >>) }
        runs   == UNION { IF probe.ub = {} THEN { probe }
                          ELSE { print2png(rs, hl_line \o << NUL >> \o tail,
                                           term, junk) :
                                   tail \in BytesBehind(probe.ub),
                                   junk \in JunkColors } :
                          probe \in probes }
    IN { [st1 |-> st1,
          st2 |-> putchar2png(st1, NL, palette[COL_DEFAULT], palette[COL_BACK])] :
         st1 \in runs }

(***************************************************************************)
(* Input files: up to MaxLines lines, one of them of LineSet and the       *)
(* others the line "a", each ended by a newline except, possibly, the      *)
(* last.                                                                   *)
(***************************************************************************)
LineSet ==
    { << >>,
      << 97 >>,
      << TAB, 97 >>,
      Rep(97, MIN_W + 1),
      Rep(TAB, (MIN_W \div TAB_SZ) + 2),
      Rep(TAB, (MIN_W \div TAB_SZ) + 1) \o << 97, 97, 97 >>,
      << 255 >>,
      << ESC, 97, 97, 97 >>,
      << 97, ESC >> }

LineSeqs ==
    { [k \in 1..n |-> IF k = at THEN l ELSE << 97 >>] :
        n \in 1..MaxLines, at \in 1..MaxLines, l \in LineSet }

JoinLines(ls) == Flatten([k \in 1..Len(ls) |-> ls[k] \o << NL >>])

Files ==
    LET terminated == { JoinLines(ls) : ls \in LineSeqs } \cup { << >> } IN
    terminated \cup { SubSeq(f, 1, Len(f) - 1) : f \in terminated \ { << >> } }

(***************************************************************************)
(* Initial state: main() is entered                                        *)
(***************************************************************************)
NoCtx == [x |-> 0, y |-> 0, w |-> 0, h |-> 0, w_px |-> 0, h_px |-> 0]
NoHeap == [array |-> "none", row_allocs |-> << >>, row_frees |-> << >>,
           array_allocs |-> 0, array_frees |-> 0, freed_at |-> "never"]
\* Pixel bytes of freshly allocated rows: not yet written
Uninit == << -1, -1, -1, -1 >>
NoLast == [raw |-> << >>, marks |-> << >>, log |-> << >>, lookups |-> {},
           x0 |-> 0, y0 |-> 0, x1 |-> 0, oob |-> {}]

InitWith(files) ==
    /\ pc = "main"
    /\ input \in files
    /\ char_signed \in BOOLEAN
    /\ syntax_hl \in BOOLEAN
    /\ in_off = 0
    /\ out_file = "untouched"
    /\ ctx = NoCtx
    /\ rows = << >>
    /\ heap = NoHeap
    /\ line_buf = << >>
    /\ hl = << >>
    /\ spans = 0
    /\ last = NoLast
    /\ ub = {}

Init == InitWith(Files)

\* DIE(...): message to stderr, exit(1)
Die ==
    /\ pc' = "fatal"
    /\ UNCHANGED << input, char_signed, syntax_hl, in_off, ctx, rows, heap,
                    line_buf, spans, last, ub >>

(***************************************************************************)
(* main                                                                    *)
(***************************************************************************)
\* if (argc < 3) DIE("Usage: ...")
Usage ==
    /\ pc = "main"
    /\ \E argc \in 1..2 : Die
    /\ UNCHANGED << out_file, hl >>

\* safe_fopen(input_path, "r")
OpenInput ==
    /\ pc = "main"
    /\ pc' = "opened_in"
    /\ UNCHANGED << input, char_signed, syntax_hl, in_off, out_file, ctx, rows,
                    heap, line_buf, hl, spans, last, ub >>

OpenInputFail ==
    /\ pc = "main"
    /\ Die
    /\ UNCHANGED << out_file, hl >>

\* safe_fopen(output_path, "wb"): creates the file or truncates it
OpenOutput ==
    /\ pc = "opened_in"
    /\ pc' = "opened_out"
    /\ out_file' = "empty"
    /\ UNCHANGED << input, char_signed, syntax_hl, in_off, ctx, rows, heap,
                    line_buf, hl, spans, last, ub >>

OpenOutputFail ==
    /\ pc = "opened_in"
    /\ Die
    /\ UNCHANGED << out_file, hl >>

\* ctx_init: cursor, dimensions, pixel size, allocation of the rows.  The
\* scan of get_file_dimensions ends only if some read compares equal to EOF.
CtxInit ==
    /\ pc = "opened_out"
    /\ IF LoopStops(input, 0)
       THEN LET d    == get_file_dimensions(input, MIN_W, MIN_H)
                w_px == MARGIN + d.w * FONT_W + MARGIN
                h_px == MARGIN + d.h * (FONT_H + LINE_SPACING) + MARGIN
            IN /\ pc' = "ctx_ready"
               /\ ctx' = [x |-> 0, y |-> 0, w |-> d.w, h |-> d.h,
                          w_px |-> w_px, h_px |-> h_px]
               /\ rows' = [y \in 0..(h_px - 1) |->
                             [x \in 0..(w_px - 1) |-> Uninit]]
               /\ heap' = [array |-> "live",
                           row_allocs |-> [y \in 0..(h_px - 1) |-> 1],
                           row_frees |-> [y \in 0..(h_px - 1) |-> 0],
                           array_allocs |-> 1, array_frees |-> 0,
                           freed_at |-> "never"]
       ELSE /\ pc' = "hang"
            /\ UNCHANGED << ctx, rows, heap >>
    /\ UNCHANGED << input, char_signed, syntax_hl, in_off, out_file, line_buf,
                    hl, spans, last, ub >>

\* ctx_init: ftell fails, or one of the safe_malloc calls fails
CtxInitFail ==
    /\ pc = "opened_out"
    /\ \E cause \in { "ftell", "malloc" } :
          /\ cause = "malloc" => LoopStops(input, 0)
          /\ Die
    /\ UNCHANGED << out_file, hl >>

\* A render state from the context, and back
RenderState ==
    [x |-> ctx.x, y |-> ctx.y, rows |-> rows, w_px |-> ctx.w_px,
     h_px |-> ctx.h_px, oob |-> {}, log |-> << >>, lookups |-> {}, ub |-> {}]

\* draw_rect(&ctx, 0, 0, ctx.w_px, ctx.h_px, ctx.palette[COL_BACK])
ClearImage ==
    /\ pc = "ctx_ready"
    /\ pc' = "cleared"
    /\ rows' = draw_rect(RenderState, 0, 0, ctx.w_px, ctx.h_px,
                         palette[COL_BACK]).rows
    /\ UNCHANGED << input, char_signed, syntax_hl, in_off, out_file, ctx, heap,
                    line_buf, hl, spans, last, ub >>

(***************************************************************************)
(* file2png                                                                *)
(***************************************************************************)
\* Entry of file2png up to the read loop: ftell, rewind, highlight_init,
\* highlight_alloc_line, safe_malloc of line_buf
File2pngBegin ==
    /\ pc = "cleared"
    /\ pc' = "file2png"
    /\ in_off' = 0
    /\ hl' = hl \o << << "highlight_init", << >> >>,
                      << "highlight_alloc_line", << >> >> >>
    /\ line_buf' = << >>
    /\ UNCHANGED << input, char_signed, syntax_hl, out_file, ctx, rows, heap,
                    spans, last, ub >>

File2pngBeginFail ==
    /\ pc = "cleared"
    /\ \E cause \in { "ftell", "highlight_init", "malloc" } :
          hl' = CASE cause = "ftell" -> hl
                  [] cause = "highlight_init" ->
                        Append(hl, << "highlight_init", << >> >>)
                  [] cause = "malloc" ->
                        hl \o << << "highlight_init", << >> >>,
                                 << "highlight_alloc_line", << >> >> >>
    /\ Die
    /\ UNCHANGED out_file

\* Offsets (0-based) of the newlines the read loop meets from in_off on
NewlinesAhead ==
    { k \in in_off..(StopOffset(input, in_off) - 1) : input[k + 1] = NL }

\* A line buffer without room for the terminator
line_buf_sz_no_terminator == ctx.w

\* line_buf_sz
line_buf_sz == ctx.w + 1

\* One pass of the read loop up to and including the next newline: the
\* bytes in front of it are stored in line_buf, then the line is
\* terminated, highlighted and printed, and the newline is printed.
File2pngLine ==
    /\ pc = "file2png"
    /\ LoopStops(input, in_off)
    /\ NewlinesAhead # {}
    /\ LET nl   == CHOOSE k \in NewlinesAhead : \A j \in NewlinesAhead : k <= j
           line == line_buf \o SubSeq(input, in_off + 1, nl)
       IN
       IF Len(line) >= line_buf_sz
       THEN \* assert(line_buf_pos < line_buf_sz) fails
            /\ pc' = "aborted"
            /\ line_buf' = SubSeq(line, 1, line_buf_sz)
            /\ in_off' = in_off + line_buf_sz + 1
            /\ UNCHANGED << ctx, rows, hl, spans, last, ub >>
       ELSE \E tokens \in SpanSeqs(line, MaxSpans - spans) :
            \E marks \in { MarksOf(tokens) } :
            \E run \in PrintLine(RenderState, highlight_line(line, marks)) :
               LET new_ub == run.st2.ub \cup
                          (IF run.st2.oob = {} THEN {} ELSE { "canvas_write" })
               IN /\ \E crash \in BOOLEAN :
                        /\ crash => new_ub # {}
                        /\ pc' = IF crash THEN "crashed" ELSE "file2png"
                  /\ line_buf' = << >>
                  /\ in_off' = nl + 1
                  /\ ctx' = [ctx EXCEPT !.x = run.st2.x, !.y = run.st2.y]
                  /\ rows' = run.st2.rows
                  /\ hl' = Append(hl, << "highlight_line", line >>)
                  /\ spans' = spans + Len(tokens)
                  /\ last' = [raw |-> line, marks |-> marks,
                              log |-> run.st2.log, lookups |-> run.st2.lookups,
                              x0 |-> ctx.x, y0 |-> ctx.y, x1 |-> run.st1.x,
                              oob |-> run.st2.oob]
                  /\ ub' = ub \cup new_ub
    /\ UNCHANGED << input, char_signed, syntax_hl, out_file, heap >>

\* The read loop from the last newline to the end of the stream, and the
\* exit of file2png: highlight_free, highlight_finish, free, fseek
File2pngEnd ==
    /\ pc = "file2png"
    /\ LoopStops(input, in_off)
    /\ NewlinesAhead = {}
    /\ LET rest == SubSeq(input, in_off + 1, StopOffset(input, in_off)) IN
       \* the assertion is tested for each byte read, before it is stored
       IF Len(rest) > line_buf_sz
       THEN /\ pc' = "aborted"
            /\ line_buf' = SubSeq(rest, 1, line_buf_sz)
            /\ in_off' = in_off + line_buf_sz + 1
            /\ hl' = hl
       ELSE /\ pc' = "rendered"
            /\ line_buf' = rest
            /\ in_off' = 0
            /\ hl' = hl \o << << "highlight_free", << >> >>,
                              << "highlight_finish", << >> >> >>
    /\ UNCHANGED << input, char_signed, syntax_hl, out_file, ctx, rows, heap,
                    spans, last, ub >>

(***************************************************************************)
(* main, after file2png                                                    *)
(***************************************************************************)
DrawBorder ==
    /\ pc = "rendered"
    /\ pc' = "bordered"
    /\ rows' = draw_border(RenderState).rows
    /\ UNCHANGED << input, char_signed, syntax_hl, in_off, out_file, ctx, heap,
                    line_buf, hl, spans, last, ub >>

\* png2file: the codec writes the whole image
Png2file ==
    /\ pc = "bordered"
    /\ pc' = "written"
    /\ out_file' = "complete"
    /\ UNCHANGED << input, char_signed, syntax_hl, in_off, ctx, rows, heap,
                    line_buf, hl, spans, last, ub >>

\* png2file: png_create_write_struct or png_create_info_struct returns NULL
Png2fileFail ==
    /\ pc = "bordered"
    /\ Die
    /\ UNCHANGED << out_file, hl >>

\* A ctx_finish that frees the rows but not the row array
ctx_finish_rows_only(hp, at) ==
    [hp EXCEPT !.row_frees = [y \in DOMAIN @ |-> @[y] + 1],
               !.freed_at = at]

\* ctx_finish: free(rows[y]) for every y, then free(rows)
ctx_finish(hp, at) ==
    [hp EXCEPT !.row_frees = [y \in DOMAIN @ |-> @[y] + 1],
               !.array_frees = @ + 1,
               !.array = "freed",
               !.freed_at = at]

\* ctx_finish(&ctx); fclose(output_fp); fclose(input_fp); return 0
CtxFinish ==
    /\ pc = "written"
    /\ pc' = "done"
    /\ heap' = ctx_finish(heap, pc)
    /\ UNCHANGED << input, char_signed, syntax_hl, in_off, out_file, ctx, rows,
                    line_buf, hl, spans, last, ub >>

Next ==
    \/ Usage
    \/ OpenInput
    \/ OpenInputFail
    \/ OpenOutput
    \/ OpenOutputFail
    \/ CtxInit
    \/ CtxInitFail
    \/ ClearImage
    \/ File2pngBegin
    \/ File2pngBeginFail
    \/ File2pngLine
    \/ File2pngEnd
    \/ DrawBorder
    \/ Png2file
    \/ Png2fileFail
    \/ CtxFinish

Spec == Init /\ [][Next]_vars

(***************************************************************************)
(* Properties.  What the text of the input says, computed from the bytes   *)
(* alone.                                                                  *)
(***************************************************************************)
Range(q) == { q[k] : k \in DOMAIN q }

NewlineOffsets(f) == { k \in 1..Len(f) : f[k] = NL }

\* Offset (1-based) of the n-th newline of f
NthNewline(f, n) ==
    CHOOSE k \in NewlineOffsets(f) :
        Cardinality({ j \in NewlineOffsets(f) : j <= k }) = n

\* The physical lines of f, without their newlines: one per newline, and
\* one more if bytes follow the last newline
PhysicalLines(f) ==
    LET n     == Cardinality(NewlineOffsets(f))
        from(i) == IF i = 1 THEN 1 ELSE NthNewline(f, i - 1) + 1
        to(i)   == IF i <= n THEN NthNewline(f, i) - 1 ELSE Len(f)
        count == IF from(n + 1) <= Len(f) THEN n + 1 ELSE n
    IN [i \in 1..count |-> SubSeq(f, from(i), to(i))]

LongestLine(f) ==
    LET lens == { Len(l) : l \in Range(PhysicalLines(f)) } \cup { 0 }
    IN CHOOSE m \in lens : \A n \in lens : n <= m

AfterCtxInit ==
    pc \in { "ctx_ready", "cleared", "file2png", "rendered", "bordered",
             "written", "done" }

AfterFile2png == pc \in { "rendered", "bordered", "written", "done" }

\* C1: every pixel written while a line is printed lies inside the canvas:
\* 0 <= x < w_px and 0 <= y < h_px, also for lines that contain tabs.
C1_WritesInsideCanvas == last.oob = {}

\* A line with tabs has been printed
C1_TabLinePrinted == pc = "file2png" /\ TAB \in Range(last.raw)

\* C2: after ctx_init, w is the larger of MIN_W and the length of the
\* longest line, h the larger of MIN_H and the number of newlines of the
\* whole input.
C2_DimensionsOfWholeInput ==
    AfterCtxInit =>
        /\ ctx.w = Max(MIN_W, LongestLine(input))
        /\ ctx.h = Max(MIN_H, Cardinality(NewlineOffsets(input)))

\* ctx_init has measured an input with a line longer than MIN_W
C2_LongLineMeasured == pc = "ctx_ready" /\ ctx.w > MIN_W /\ ctx.h > 0

\* C3: no palette lookup is made with an index outside 0..PALETTE_SZ-1 (a
\* marker with such an index ends the run in a fatal error); stated for
\* markers that are complete, all four bytes in front of the terminator of
\* the line.
C3_LookupsInsidePalette ==
    "read_past_terminator" \notin ub =>
        \A idx \in last.lookups : idx >= 0 /\ idx < PALETTE_SZ

\* A line with markers has been decoded
C3_MarkerDecoded == pc = "file2png" /\ last.lookups # {}

\* Colors in force at offset p of the raw line: those of the last marker
\* at a position <= p, the defaults if there is none
ActiveMarker(marks, p) ==
    LET before == { k \in 1..Len(marks) : marks[k][1] <= p }
    IN IF before = {} \/ ~syntax_hl
       THEN << COL_DEFAULT, COL_BACK >>
       ELSE LET k == CHOOSE m \in before : \A n \in before : n <= m
            IN << marks[k][2], marks[k][3] >>

\* C4: of a highlighted line, print2png passes to putchar2png exactly the
\* characters outside the markers, in order, each with the palette colors
\* of the most recent marker in front of it (the default colors in a build
\* without highlighting), and the cursor column advances by the number of
\* these characters, a tab counting TAB_SZ.
C4_MarkersSetColors ==
    ESC \notin Range(last.raw) =>
        /\ Len(last.log) = Len(last.raw)
        /\ \A k \in 1..Len(last.raw) :
              last.log[k] =
                 << CharVal(last.raw[k]),
                    palette[ActiveMarker(last.marks, k - 1)[1]],
                    palette[ActiveMarker(last.marks, k - 1)[2]] >>
        /\ last.x1 - last.x0 =
              Len(last.raw)
              + (TAB_SZ - 1) * Cardinality({ k \in 1..Len(last.raw) :
                                               last.raw[k] = TAB })

\* A line with a tab token between a COL_STRING marker and a COL_DEFAULT
\* marker, and text behind it, has been printed
C4_StringThenDefault ==
    /\ syntax_hl
    /\ last.raw = << TAB, 97 >>
    /\ last.marks = << << 0, COL_STRING, COL_BACK >>,
                       << 1, COL_DEFAULT, COL_BACK >> >>
    /\ last.log = << << TAB, palette[COL_STRING], palette[COL_BACK] >>,
                     << 97, palette[COL_DEFAULT], palette[COL_BACK] >> >>

\* C5: a run that ends in a fatal error leaves the output file either
\* untouched or complete, never empty or half written.
C5_FatalLeavesNoPartialOutput ==
    pc = "fatal" => out_file \in { "untouched", "complete" }

\* A fatal error after the output was opened
C5_FatalAfterOpen == pc = "fatal" /\ out_file # "untouched"

\* The outer band of BORDER_SZ pixels
BorderBand ==
    { p \in (0..(ctx.w_px - 1)) \X (0..(ctx.h_px - 1)) :
        \/ p[1] < BORDER_SZ \/ p[1] >= ctx.w_px - BORDER_SZ
        \/ p[2] < BORDER_SZ \/ p[2] >= ctx.h_px - BORDER_SZ }

\* The canvas is in the state draw_border left it in
Bordered == pc \in { "bordered", "written" }

BorderDrawn ==
    Bordered => \A p \in BorderBand : rows[p[2]][p[1]] = palette[COL_BORDER]

CanvasKept == Bordered => rows' = rows

\* C6: when the canvas is handed to png2file, and until it is written,
\* every pixel of the outer band of BORDER_SZ pixels is palette[COL_BORDER],
\* whatever was printed before, and nothing writes to the canvas after
\* draw_border.
C6_BorderWins == []BorderDrawn /\ [][CanvasKept]_vars

\* An image was written whose last line reached into the right band
C6_TextUnderBorder ==
    /\ pc = "written"
    /\ ub = {}
    /\ last.raw # << >>
    /\ CHAR_X_TO_PX(last.x1) > ctx.w_px - BORDER_SZ

\* C8: on a run that reaches the end of main, the rows and the row array
\* are allocated once, by ctx_init, and freed once, by ctx_finish after
\* png2file; every step that reads or writes the canvas finds it live.
C8_CanvasLifetime ==
    /\ heap.array = "none" <=> ~AfterCtxInit /\ rows = << >>
    /\ AfterCtxInit =>
          /\ heap.array_allocs = 1
          /\ DOMAIN heap.row_allocs = 0..(ctx.h_px - 1)
          /\ \A y \in DOMAIN heap.row_allocs : heap.row_allocs[y] = 1
    /\ pc \in { "ctx_ready", "cleared", "file2png", "rendered", "bordered",
                "written" } =>
          /\ heap.array = "live"
          /\ heap.array_frees = 0
          /\ \A y \in DOMAIN heap.row_frees : heap.row_frees[y] = 0
    /\ pc = "done" =>
          /\ heap.array = "freed"
          /\ heap.freed_at = "written"
          /\ out_file = "complete"
          /\ heap.array_frees = 1
          /\ \A y \in DOMAIN heap.row_frees : heap.row_frees[y] = 1

\* A run has ended after printing lines
C8_RunEnded == pc = "done" /\ heap.array = "freed" /\ last.log # << >>

\* putchar2png(' ') n times
RECURSIVE Spaces(_, _, _, _)
Spaces(rs, fg, bg, n) ==
    IF n = 0 THEN rs
    ELSE LET next == putchar2png(rs, SPACE, fg, bg)
         IN IF next.x >= 0 THEN Spaces(next, fg, bg, n - 1) ELSE next

\* Cursor positions and colors the tab is tried with
TabColumns == { 0, 1, ctx.w - TAB_SZ, ctx.w - 1 }
TabRows == { 0, ctx.y }
TabColors == { << palette[COL_DEFAULT], palette[COL_BACK] >>,
               << palette[COL_STRING], palette[COL_BORDER] >> }

\* C9: from any cursor position and with any colors, putchar2png of a tab
\* leaves the canvas and the cursor as TAB_SZ calls of putchar2png with a
\* space and the same colors do.  Tried on every canvas file2png returns.
C9_TabIsSpaces ==
    pc = "rendered" =>
        \A col \in TabColumns, row \in TabRows, fgbg \in TabColors :
            LET rs == [RenderState EXCEPT !.x = col, !.y = row] IN
            putchar2png(rs, TAB, fgbg[1], fgbg[2])
               = Spaces(rs, fgbg[1], fgbg[2], TAB_SZ)

\* file2png has returned from printing a line with a tab below the first
C9_TabPrinted ==
    /\ pc = "rendered"
    /\ ub = {}
    /\ last.y0 > 0
    /\ \E k \in 1..Len(last.log) : last.log[k][1] = TAB

\* C10: highlight_init and highlight_alloc_line are called once before any
\* highlight_line, highlight_line once for each physical line of the input
\* in input order, the last line also if no newline ends it, and
\* highlight_free and highlight_finish once after the last highlight_line.
C10_EveryLineClassified ==
    AfterFile2png =>
        hl = << << "highlight_init", << >> >>,
                << "highlight_alloc_line", << >> >> >>
             \o [i \in 1..Len(PhysicalLines(input)) |->
                    << "highlight_line", PhysicalLines(input)[i] >>]
             \o << << "highlight_free", << >> >>,
                   << "highlight_finish", << >> >> >>

\* file2png has returned for an input of two lines
C10_TwoLinesDone ==
    AfterFile2png /\ Len(PhysicalLines(input)) = 2 /\ Len(hl) = 6

\* The glyph cell of cursor position (col, row)
Cell(col, row) ==
    (CHAR_X_TO_PX(col)..(CHAR_X_TO_PX(col) + FONT_W - 1))
       \X (CHAR_Y_TO_PX(row)..(CHAR_Y_TO_PX(row) + FONT_H - 1))

\* The canvas with the glyph of c drawn into the cell of the cursor of rs
WithGlyph(rs, c, fg, bg) ==
    [py \in 0..(rs.h_px - 1) |->
        IF py < CHAR_Y_TO_PX(rs.y) \/ py >= CHAR_Y_TO_PX(rs.y) + FONT_H
        THEN rs.rows[py]
        ELSE [px \in 0..(rs.w_px - 1) |->
                IF << px, py >> \in Cell(rs.x, rs.y)
                THEN (IF get_font_bit(c, px - CHAR_X_TO_PX(rs.x),
                                      py - CHAR_Y_TO_PX(rs.y))
                      THEN fg ELSE bg)
                ELSE rs.rows[py][px]]]

\* putchar2png called with c at cursor (col, row) of the present canvas
\* does what the character class of c allows
FrameAt(col, row, c, fg, bg) ==
    LET rs    == [RenderState EXCEPT !.x = col, !.y = row]
        after == putchar2png(rs, c, fg, bg)
    IN IF c = NL
       THEN after = [rs EXCEPT !.x = 0, !.y = row + 1]
       ELSE /\ after.x = col + 1
            /\ after.y = row
            /\ after.oob = {}
            /\ after.rows = WithGlyph(rs, c, fg, bg)

\* Cursor columns at which the last line had a glyph drawn: the first and
\* the last
GlyphColumns == IF last.x1 > 0 THEN { 0, last.x1 - 1 } ELSE {}

\* C11: putchar2png of a newline changes no pixel and puts the cursor at
\* column 0 of the next row; putchar2png of a character other than newline
\* and tab stores fg or bg, as the font bit says, in each of the FONT_W x
\* FONT_H pixels of the cell of the cursor, changes no other pixel, keeps
\* the row and advances the column by one.  Stated for the cursor
\* positions at which print2png called it on the last line.
C11_OnlyTheCell ==
    pc = "file2png" =>
        \A col \in GlyphColumns, c \in { NL, SPACE, 97 } :
            FrameAt(col, last.y0, c, palette[COL_STRING], palette[COL_BACK])

\* The same for the cursor positions whose cell lies inside the canvas
C11_OnlyTheCellInside ==
    pc = "file2png" =>
        \A col \in { k \in GlyphColumns :
                       CHAR_X_TO_PX(k) + FONT_W <= ctx.w_px },
           c \in { NL, SPACE, 97 } :
            FrameAt(col, last.y0, c, palette[COL_STRING], palette[COL_BACK])

\* A line has been printed whose last glyph is in the last column of the
\* text area
C11_GlyphInLastColumn ==
    pc = "file2png" /\ ub = {} /\ last.x1 = ctx.w /\ last.y0 > 0

\* Number of characters in front of the first marker of the last line: of
\* the first marker of the classifier or the first ESC byte of the input
\* line, whichever comes first
BeforeFirstMarker ==
    LET at == { last.marks[k][1] : k \in 1..Len(last.marks) }
                 \cup { j - 1 : j \in { i \in 1..Len(last.raw) :
                                          last.raw[i] = ESC } }
                 \cup { Len(last.raw) }
    IN CHOOSE m \in at : \A n \in at : m <= n

\* C12: print2png starts every line with the colors palette[COL_DEFAULT]
\* and palette[COL_BACK], whatever markers the lines before it contained:
\* every character in front of the first marker of a line is drawn with
\* these two colors.
C12_ColorsResetPerLine ==
    pc = "file2png" =>
        /\ Len(last.log) >= BeforeFirstMarker
        /\ \A k \in 1..BeforeFirstMarker :
              last.log[k] = << CharVal(last.raw[k]), palette[COL_DEFAULT],
                               palette[COL_BACK] >>

\* A line without markers has been printed below a line in which the
\* classifier highlighted a token
C12_PlainLineAfterMarkers ==
    /\ pc = "file2png"
    /\ syntax_hl
    /\ spans > 0
    /\ last.y0 > 0
    /\ last.marks = << >>
    /\ last.log # << >>
    /\ ub = {}

\* The bytes the read loop of file2png reads: the input up to the read
\* that compares equal to EOF
ReadByFile2png == SubSeq(input, 1, StopOffset(input, 0))

\* C13: the assertion line_buf_pos < line_buf_sz of file2png never fails:
\* no line the render pass reads has more than w characters in front of
\* its newline or the end of the stream, so every line and its terminating
\* NUL fit the line buffer of w + 1 bytes.
C13_LineFitsBuffer ==
    /\ pc # "aborted"
    /\ pc = "file2png" /\ in_off = 0 => LongestLine(ReadByFile2png) <= ctx.w
    /\ pc = "file2png" => Len(last.raw) + 1 <= line_buf_sz
    /\ AfterFile2png => Len(line_buf) < line_buf_sz

\* A line that fills the buffer up to the terminator has been printed
C13_BufferFull ==
    /\ pc = "file2png"
    /\ ctx.w > MIN_W
    /\ Len(last.raw) = ctx.w
    /\ Len(last.raw) + 1 = line_buf_sz

(***************************************************************************)
(* Inputs of three lines, the longest of 10 characters                     *)
(***************************************************************************)
ShortLines == { << >>, << 97 >>, Rep(97, 10) }

ThreeLineFiles ==
    LET texts == { t \in [1..3 -> ShortLines] :
                     \E k \in 1..3 : Len(t[k]) = 10 }
    IN { JoinLines(t) : t \in texts }
       \cup { SubSeq(JoinLines(t), 1, Len(JoinLines(t)) - 1) :
                t \in { u \in texts : u[3] # << >> } }

InitThreeLines == InitWith(ThreeLineFiles)

SpecThreeLines == InitThreeLines /\ [][Next]_vars

\* C7: for an input of three lines, each ended by a newline, the longest
\* of 10 characters, the canvas is MARGIN*2 + MIN_W*FONT_W pixels wide (10
\* is below the minimum width MIN_W) and MARGIN*2 + 3*(FONT_H +
\* LINE_SPACING) pixels high.
C7_ThreeLineCanvas ==
    AfterCtxInit /\ input[Len(input)] = NL =>
        /\ ctx.w_px = MARGIN * 2 + MIN_W * FONT_W
        /\ ctx.h_px = MARGIN * 2 + 3 * (FONT_H + LINE_SPACING)

\* C7 as stated: the width is that of 10 characters
C7_TenCharactersWide ==
    AfterCtxInit /\ input[Len(input)] = NL =>
        /\ ctx.w_px = MARGIN * 2 + 10 * FONT_W
        /\ ctx.h_px = MARGIN * 2 + 3 * (FONT_H + LINE_SPACING)

\* The image of such an input has been written
C7_ImageWritten ==
    /\ pc = "written"
    /\ input[Len(input)] = NL
    /\ LongestLine(input) = 10
    /\ Len(PhysicalLines(input)) = 3

====
